---------------------------- MODULE Spec2Model ----------------------------
(***************************************************************************)
(* A model of the blog-revival agent: the sitemap resolver                 *)
(* (sitemap_crawler.py), the content extractor (content_fetcher.py) and    *)
(* the processing loop of the driver (app.py).                             *)
(*                                                                         *)
(* Python strings are sequences of lexemes.  The lexemes the code inspects *)
(* ("http", "/", ":", " ", "\n", "-", "_", "?", "#") are always lexemes of *)
(* their own; every other lexeme is an opaque run of characters that       *)
(* contains none of them.                                                  *)
(***************************************************************************)
EXTENDS Integers, Sequences, FiniteSets, TLC

\* ------------------------------------------------------------------ bounds

\* get_site_pages calls in one behaviour
MaxCalls == 2
\* post URLs in one batch of the processing loop
MaxUrls == 2

\* ------------------------------------------------------------- Python str

\* None where a str may stand, itself a sequence like every str
None == <<"(None)">>

\* None where a dict, an element or a response may stand
NoDict == [none |-> TRUE]

\* session_state=None
NoSessionState == "None"

\* F(x), with x evaluated once however often F uses it
With(x, F(_)) == CHOOSE r \in {F(v) : v \in {x}} : TRUE

\* s.startswith(p)
StartsWith(s, p) == Len(s) >= Len(p) /\ SubSeq(s, 1, Len(p)) = p

\* s.rstrip(c): every trailing c is removed
RECURSIVE RStrip(_, _)
RStrip(s, c) ==
    IF s # <<>> /\ s[Len(s)] = c THEN RStrip(SubSeq(s, 1, Len(s) - 1), c) ELSE s

RECURSIVE LStrip(_, _)
LStrip(s, c) == IF s # <<>> /\ s[1] = c THEN LStrip(Tail(s), c) ELSE s

\* s.strip() for the one whitespace lexeme of the model
Strip(s) == RStrip(LStrip(s, " "), " ")

\* the lower-case form of a lexeme
LowerLex(x) ==
    CASE x = "Sitemap" -> "sitemap"
      [] x = "SITEMAP" -> "sitemap"
      [] x = "Disallow" -> "disallow"
      [] x = "User-agent" -> "user-agent"
      [] x = "Just a moment" -> "just a moment"
      [] x = "JUST A MOMENT" -> "just a moment"
      [] x = "Checking your browser" -> "checking your browser"
      [] x = "Ray-ID" -> "ray-id"
      [] OTHER -> x

\* s.lower()
Lower(s) == [i \in 1..Len(s) |-> LowerLex(s[i])]

\* the index of the first c in s, 0 when there is none
RECURSIVE IndexFrom(_, _, _)
IndexFrom(s, c, i) ==
    IF i > Len(s) THEN 0 ELSE IF s[i] \in c THEN i ELSE IndexFrom(s, c, i + 1)

Index(s, c) == IndexFrom(s, {c}, 1)

\* the index of the last c in s, 0 when there is none
RECURSIVE LastIndexFrom(_, _, _)
LastIndexFrom(s, c, i) ==
    IF i < 1 THEN 0 ELSE IF s[i] = c THEN i ELSE LastIndexFrom(s, c, i - 1)

LastIndex(s, c) == LastIndexFrom(s, c, Len(s))

\* s.split(c)[-1]
LastSegment(s, c) == SubSeq(s, LastIndex(s, c) + 1, Len(s))

\* text.splitlines()
RECURSIVE splitlines(_)
splitlines(text) ==
    IF text = <<>> THEN <<>>
    ELSE LET i == Index(text, "\n")
         IN IF i = 0 THEN <<text>>
            ELSE <<SubSeq(text, 1, i - 1)>> \o splitlines(SubSeq(text, i + 1, Len(text)))

\* the concatenation of a sequence of strings
RECURSIVE Concat(_)
Concat(ss) == IF ss = <<>> THEN <<>> ELSE Head(ss) \o Concat(Tail(ss))

\* a is a run of consecutive lexemes of b: `a in b`
IsInfix(a, b) ==
    \E i \in 0..(Len(b) - Len(a)) : SubSeq(b, i + 1, i + Len(a)) = a

\* ---------------------------------------------------------- urllib.parse

SchemeLex == {"http", "s"}

\* the index of the ":" that ends the scheme of url, 0 when it has no scheme
SchemeEnd(url) ==
    LET i == Index(url, ":")
    IN IF i > 1 /\ \A j \in 1..(i - 1) : url[j] \in SchemeLex THEN i ELSE 0

\* what follows "scheme:"
AfterScheme(url) == SubSeq(url, SchemeEnd(url) + 1, Len(url))

HasNetloc(url) == StartsWith(AfterScheme(url), <<"/", "/">>)

\* what follows "scheme://"
AfterSlashes(url) == SubSeq(AfterScheme(url), 3, Len(AfterScheme(url)))

\* urlparse(url).scheme
UrlScheme(url) == SubSeq(url, 1, SchemeEnd(url) - 1)

\* urlparse(url).netloc
UrlNetloc(url) ==
    IF HasNetloc(url)
    THEN LET r == AfterSlashes(url)
             e == IndexFrom(r, {"/", "?", "#"}, 1)
         IN IF e = 0 THEN r ELSE SubSeq(r, 1, e - 1)
    ELSE <<>>

\* urlparse(url).path
UrlPath(url) ==
    LET r == IF HasNetloc(url)
             THEN SubSeq(AfterSlashes(url), Len(UrlNetloc(url)) + 1, Len(AfterSlashes(url)))
             ELSE AfterScheme(url)
        e == IndexFrom(r, {"?", "#"}, 1)
    IN IF e = 0 THEN r ELSE SubSeq(r, 1, e - 1)

\* -------------------------------------------------------------- the web

Https == <<"http", "s", ":", "/", "/">>

\* the one site that serves anything; every other host refuses the connection
Site == Https \o <<"a.io">>

UrlCustom1 == Site \o <<"/", "custom", "-", "sitemap.xml">>
UrlCustom2 == Site \o <<"/", "news", "_", "sitemap.xml">>
UrlSitemap == Site \o <<"/", "sitemap.xml">>
UrlSitemapIndex == Site \o <<"/", "sitemap", "_", "index.xml">>
UrlSitemapDashIndex == Site \o <<"/", "sitemap", "-", "index.xml">>
UrlWpSitemap == Site \o <<"/", "wp", "-", "sitemap.xml">>
UrlChild == Site \o <<"/", "post", "-", "sitemap.xml">>
UrlRobots == Site \o <<"/", "robots.txt">>

PostA == Site \o <<"/", "blog", "/", "my", "-", "post", "/">>
PostB == Site \o <<"/", "about", "_", "us">>
PostC == Site \o <<"/">>
PostD == Site
\* a loc written without its scheme
PostE == <<"a.io", "/", "contact">>

\* requests.get raised (connection error, timeout, invalid URL)
ConnError == [kind |-> "error"]

Response(status, body) == [kind |-> "resp", status |-> status, body |-> body]

TextBody(text) == [type |-> "text", text |-> text]

\* a well-formed XML document: its root tag and the <loc> texts of its
\* <url> or <sitemap> children, in document order (<<>>: a child without loc)
XmlBody(root, locs) == [type |-> "xml", root |-> root, locs |-> locs]

UrlSet(locs) == Response(200, XmlBody("urlset", locs))
SitemapIndex(locs) == Response(200, XmlBody("sitemapindex", locs))
NotFound == Response(404, TextBody(<<"Not Found">>))
Malformed == Response(200, TextBody(<<"<urlset><url>">>))

\* resp.text
ResponseText(resp) == IF resp.body.type = "text" THEN resp.body.text ELSE <<"<?xml">>

\* robots.txt as served: one directive per line, the sitemap directives
\* written in the given order and in varying case
RobotsText(declared) ==
    <<"User-agent", ":", " ", "*", "\n", "Disallow", ":", " ", "/", "admin", "\n">>
    \o Concat([i \in 1..Len(declared) |->
                 (IF i = 1 THEN <<"Sitemap", ":", " ">> ELSE <<"SITEMAP", ":">>)
                 \o declared[i] \o <<" ", "\n">>])

RobotsChoices ==
    {ConnError, Response(404, TextBody(RobotsText(<<UrlCustom1>>)))}
    \cup {Response(200, TextBody(RobotsText(d))) :
            d \in {<<>>, <<UrlCustom1>>, <<UrlCustom1, UrlCustom2>>}}

Custom1Choices == {NotFound, UrlSet(<<>>), UrlSet(<<PostA, PostB>>)}
SitemapChoices == {NotFound, Malformed, UrlSet(<<PostB, <<>>, PostA>>)}
SitemapIndexChoices ==
    { NotFound, SitemapIndex(<<UrlSitemapIndex, UrlChild>>),
      SitemapIndex(<<UrlCustom2, UrlSitemapIndex, UrlChild>>) }
WpSitemapChoices == {NotFound, UrlSet(<<PostD, PostE>>)}

\* what robots.txt and the sitemap it names first may serve together: the
\* named sitemap exists only where a robots.txt, of whatever status, names it
RobotsAndCustom1 ==
    { <<r, c1>> \in RobotsChoices \X Custom1Choices :
        \/ c1 = NotFound
        \/ r.kind = "resp" /\ IsInfix(UrlCustom1, ResponseText(r)) }

\* the web: what each URL serves; a URL outside it cannot be connected to
Worlds ==
    { (UrlRobots :> rc[1]) @@ (UrlCustom1 :> rc[2]) @@ (UrlCustom2 :> c2)
      @@ (UrlSitemap :> s) @@ (UrlSitemapIndex :> si) @@ (UrlWpSitemap :> wp)
      @@ (UrlSitemapDashIndex :> NotFound) @@ (UrlChild :> UrlSet(<<PostA>>)) :
        rc \in RobotsAndCustom1, c2 \in {UrlSet(<<PostC>>)},
        s \in SitemapChoices, si \in SitemapIndexChoices, wp \in WpSitemapChoices }

\* requests.get(url)
requests_get(w, url) == IF url \in DOMAIN w THEN w[url] ELSE ConnError

\* resp.raise_for_status() raises
RaisesForStatus(resp) == resp.status >= 400 /\ resp.status < 600


\* ------------------------------------------------------ sitemap_crawler.py

\* the deepest nesting _parse_sitemap_xml parses
MaxDepth == 3

\* word.title() of a lexeme
TitleLex(x) ==
    CASE x = "my" -> "My"
      [] x = "post" -> "Post"
      [] x = "about" -> "About"
      [] x = "us" -> "Us"
      [] x = "blog" -> "Blog"
      [] OTHER -> x

\* s.replace("-", " ").replace("_", " ")
DashesToSpaces(s) == [i \in 1..Len(s) |-> IF s[i] \in {"-", "_"} THEN " " ELSE s[i]]

\* the page dict with the path taken as the slug as it stands
SitePageRawPath(loc) ==
    LET page_url == Strip(loc)
        stripped == RStrip(UrlPath(page_url), "/")
        slug == IF stripped = <<>> THEN <<"/">> ELSE stripped
        raw == Strip(DashesToSpaces(LastSegment(slug, "/")))
        title == IF raw # <<>> THEN [i \in 1..Len(raw) |-> TitleLex(raw[i])] ELSE slug
    IN [url |-> page_url, slug |-> slug, title |-> title]

\* the page dict built for one <url> element
SitePage(loc) ==
    LET page_url == Strip(loc)
        stripped == RStrip(UrlPath(page_url), "/")
        path == IF stripped = <<>> THEN <<"/">> ELSE stripped
        slug == IF StartsWith(path, <<"/">>) THEN path ELSE <<"/">> \o path
        raw == Strip(DashesToSpaces(LastSegment(slug, "/")))
        title == IF raw # <<>> THEN [i \in 1..Len(raw) |-> TitleLex(raw[i])] ELSE slug
    IN [url |-> page_url, slug |-> slug, title |-> title]

\* the pages of a url-set: one per <url> element with a non-empty loc
RECURSIVE UrlSetPages(_)
UrlSetPages(locs) ==
    IF locs = <<>> THEN <<>>
    ELSE (IF Head(locs) = <<>> THEN <<>> ELSE <<SitePage(Head(locs))>>)
         \o UrlSetPages(Tail(locs))

NoPages == [pages |-> <<>>, reqs |-> <<>>, depths |-> <<>>]

\* Both return the pages and, in order, the URLs requested on the way, each
\* with the depth it was requested at.
RECURSIVE _parse_sitemap_xml(_, _, _, _)
RECURSIVE _fetch_and_parse(_, _, _, _)
RECURSIVE IndexPages(_, _, _, _)

\* the loop over the <sitemap> children of a sitemap index
IndexPages(w, locs, base_domain, depth) ==
    IF locs = <<>> THEN NoPages
    ELSE With(IF Head(locs) = <<>> THEN NoPages
              ELSE _fetch_and_parse(w, Strip(Head(locs)), base_domain, depth + 1),
              LAMBDA child :
         With(IndexPages(w, Tail(locs), base_domain, depth),
              LAMBDA rest :
         [pages |-> child.pages \o rest.pages, reqs |-> child.reqs \o rest.reqs,
          depths |-> child.depths \o rest.depths]))

\* the guard written `depth >= 3`: the documents at depth 3 are not parsed
_parse_sitemap_xml_shallow(w, xml_content, base_domain, depth) ==
    IF depth >= MaxDepth THEN NoPages
    ELSE IF xml_content.type # "xml" THEN NoPages
    ELSE IF xml_content.root = "sitemapindex"
         THEN IndexPages(w, xml_content.locs, base_domain, depth)
         ELSE [pages |-> UrlSetPages(xml_content.locs), reqs |-> <<>>, depths |-> <<>>]

\* the guard one level late: the documents at depth 4 are parsed too
_parse_sitemap_xml_deeper(w, xml_content, base_domain, depth) ==
    IF depth > MaxDepth + 1 THEN NoPages
    ELSE IF xml_content.type # "xml" THEN NoPages
    ELSE IF xml_content.root = "sitemapindex"
         THEN IndexPages(w, xml_content.locs, base_domain, depth)
         ELSE [pages |-> UrlSetPages(xml_content.locs), reqs |-> <<>>, depths |-> <<>>]

\* a parser that recovers what it can from a truncated document
_parse_sitemap_xml_recovering(w, xml_content, base_domain, depth) ==
    IF depth > MaxDepth THEN NoPages
    ELSE IF xml_content.type # "xml"
         THEN [pages |-> <<SitePage(xml_content.text)>>, reqs |-> <<>>, depths |-> <<>>]
    ELSE IF xml_content.root = "sitemapindex"
         THEN IndexPages(w, xml_content.locs, base_domain, depth)
         ELSE [pages |-> UrlSetPages(xml_content.locs), reqs |-> <<>>, depths |-> <<>>]

_parse_sitemap_xml(w, xml_content, base_domain, depth) ==
    IF depth > MaxDepth THEN NoPages
    ELSE IF xml_content.type # "xml" THEN NoPages
    ELSE IF xml_content.root = "sitemapindex"
         THEN IndexPages(w, xml_content.locs, base_domain, depth)
         ELSE [pages |-> UrlSetPages(xml_content.locs), reqs |-> <<>>, depths |-> <<>>]

_fetch_and_parse(w, sitemap_url, base_domain, depth) ==
    LET resp == requests_get(w, sitemap_url)
    IN IF resp.kind = "error" \/ RaisesForStatus(resp)
       THEN [pages |-> <<>>, reqs |-> <<sitemap_url>>, depths |-> <<depth>>]
       ELSE With(_parse_sitemap_xml(w, resp.body, base_domain, depth),
                 LAMBDA parsed :
                     [pages |-> parsed.pages, reqs |-> <<sitemap_url>> \o parsed.reqs,
                      depths |-> <<depth>> \o parsed.depths])

\* domain normalisation (get_site_pages, first lines)
NormalizeDomain(domain) ==
    RStrip(IF ~StartsWith(domain, <<"http">>) THEN Https \o domain ELSE domain, "/")

CacheKey(domain) == <<"sitemap", "_">> \o domain

\* line.split(":")[1].strip(): the split without its limit
DeclaredOfUnlimited(line) ==
    LET rest == SubSeq(line, Index(line, ":") + 1, Len(line))
        j == Index(rest, ":")
    IN Strip(IF j = 0 THEN rest ELSE SubSeq(rest, 1, j - 1))

\* line.split(":", 1)[1].strip()
DeclaredOf(line) == Strip(SubSeq(line, Index(line, ":") + 1, Len(line)))

\* the sitemap URLs a robots.txt body declares, in file order
RECURSIVE DeclaredSitemaps(_)
DeclaredSitemaps(lines) ==
    IF lines = <<>> THEN <<>>
    ELSE (IF StartsWith(Lower(Head(lines)), <<"sitemap", ":">>)
          THEN <<DeclaredOf(Head(lines))>> ELSE <<>>)
         \o DeclaredSitemaps(Tail(lines))

\* the robots.txt scan without the status check
RobotsCandidatesAnyStatus(w, domain) ==
    LET robots_resp == requests_get(w, domain \o <<"/", "robots.txt">>)
    IN IF robots_resp.kind = "resp"
       THEN DeclaredSitemaps(splitlines(ResponseText(robots_resp)))
       ELSE <<>>

\* the candidates declared by robots.txt: none when the request raises or
\* the status is not 200
RobotsCandidates(w, domain) ==
    LET robots_resp == requests_get(w, domain \o <<"/", "robots.txt">>)
    IN IF robots_resp.kind = "resp" /\ robots_resp.status = 200
       THEN DeclaredSitemaps(splitlines(ResponseText(robots_resp)))
       ELSE <<>>

\* the common fallback locations
FallbackCandidates(domain) ==
    << domain \o <<"/", "sitemap.xml">>,
       domain \o <<"/", "sitemap", "_", "index.xml">>,
       domain \o <<"/", "sitemap", "-", "index.xml">>,
       domain \o <<"/", "wp", "-", "sitemap.xml">> >>

sitemap_candidates(w, domain) == RobotsCandidates(w, domain) \o FallbackCandidates(domain)

\* the candidate loop without its break: every candidate is fetched and the
\* last one that found pages is kept
RECURSIVE ScanCandidatesNoBreak(_, _, _, _)
ScanCandidatesNoBreak(w, cands, i, domain) ==
    IF i > Len(cands) THEN [pages |-> <<>>, reqs |-> <<>>, depths |-> <<>>, tried |-> <<>>]
    ELSE With(_fetch_and_parse(w, cands[i], domain, 0), LAMBDA found :
         With(ScanCandidatesNoBreak(w, cands, i + 1, domain), LAMBDA rest :
            [pages |-> IF rest.pages # <<>> THEN rest.pages ELSE found.pages,
             reqs |-> found.reqs \o rest.reqs,
             depths |-> found.depths \o rest.depths,
             tried |-> <<[url |-> cands[i], found |-> found.pages]>> \o rest.tried]))

\* the loop over the candidates from the i-th on: the candidates fetched,
\* with what each one found, and the pages kept
RECURSIVE ScanCandidates(_, _, _, _)
ScanCandidates(w, cands, i, domain) ==
    IF i > Len(cands) THEN [pages |-> <<>>, reqs |-> <<>>, depths |-> <<>>, tried |-> <<>>]
    ELSE With(_fetch_and_parse(w, cands[i], domain, 0), LAMBDA found :
            IF found.pages # <<>>
            THEN [pages |-> found.pages, reqs |-> found.reqs, depths |-> found.depths,
                  tried |-> <<[url |-> cands[i], found |-> found.pages]>>]
            ELSE With(ScanCandidates(w, cands, i + 1, domain), LAMBDA rest :
                    [pages |-> rest.pages, reqs |-> found.reqs \o rest.reqs,
                     depths |-> found.depths \o rest.depths,
                     tried |-> <<[url |-> cands[i], found |-> <<>>]>> \o rest.tried]))

\* a dict with key set to value
DictSet(d, key, value) ==
    [k \in DOMAIN d \cup {key} |-> IF k = key THEN value ELSE d[k]]

EmptyDict == [k \in {} |-> <<>>]

VARIABLES
    web,       \* what every URL serves
    _cache,    \* the module-level cache of sitemap_crawler.py
    sessions,  \* the session_state of every UI session
    calls,     \* the get_site_pages calls made so far, oldest first
    threads    \* the get_site_pages call of every session that runs in a thread of its own

Sessions == {"s1", "s2"}

\* the domain strings the callers pass
Domains ==
    { <<"a.io">>, Https \o <<"a.io", "/">>, <<"http", ".io">> }

\* the cache checks written as truth tests (`if _cache.get(cache_key):`),
\* which miss a cached empty list
CachedInTruthy(key, session_state) ==
    IF session_state # NoSessionState /\ key \in DOMAIN sessions[session_state]
       /\ sessions[session_state][key] # <<>> THEN "session"
    ELSE IF key \in DOMAIN _cache /\ _cache[key] # <<>> THEN "module"
    ELSE "miss"

\* the cache checks without the one of the module cache
CachedInSessionOnly(key, session_state) ==
    IF session_state # NoSessionState /\ key \in DOMAIN sessions[session_state] THEN "session"
    ELSE "miss"

\* where a call read its answer from
CachedIn(key, session_state) ==
    IF session_state # NoSessionState /\ key \in DOMAIN sessions[session_state] THEN "session"
    ELSE IF key \in DOMAIN _cache THEN "module"
    ELSE "miss"

\* the call returns pages and leaves this record
CallRecord(raw, domain, session_state, source, cands, scan, robots, pages) ==
    [ raw |-> raw, domain |-> domain, session_state |-> session_state,
      source |-> source, candidates |-> cands, tried |-> scan.tried,
      requests |-> robots \o scan.reqs, depths |-> scan.depths, pages |-> pages ]

NoScan == [pages |-> <<>>, reqs |-> <<>>, depths |-> <<>>, tried |-> <<>>]

\* the module store written `if pages:`
StoreModuleUnlessEmpty(key, pages) ==
    IF pages # <<>> THEN DictSet(_cache, key, pages) ELSE _cache

\* what a cache miss stores: the module cache, then the session cache
StoreModule(key, pages) == DictSet(_cache, key, pages)

\* the session store written `if session_state is not None and pages:`
StoreSessionUnlessEmpty(session_state, key, pages) ==
    IF session_state # NoSessionState /\ pages # <<>>
    THEN [sessions EXCEPT ![session_state] = DictSet(@, key, pages)]
    ELSE sessions

StoreSession(session_state, key, pages) ==
    IF session_state # NoSessionState
    THEN [sessions EXCEPT ![session_state] = DictSet(@, key, pages)]
    ELSE sessions

get_site_pages(raw, session_state) ==
    /\ Len(calls) < MaxCalls
    /\ LET domain == NormalizeDomain(raw)
           cache_key == CacheKey(domain)
           source == CachedIn(cache_key, session_state)
       IN CASE source = "session" ->
                 /\ calls' = Append(calls, CallRecord(raw, domain, session_state, source,
                                 <<>>, NoScan, <<>>, sessions[session_state][cache_key]))
                 /\ UNCHANGED <<_cache, sessions>>
            [] source = "module" ->
                 /\ calls' = Append(calls, CallRecord(raw, domain, session_state, source,
                                 <<>>, NoScan, <<>>, _cache[cache_key]))
                 /\ UNCHANGED <<_cache, sessions>>
            [] OTHER ->
                 \E cands \in {sitemap_candidates(web, domain)} :
                 \E scan \in {ScanCandidates(web, cands, 1, domain)} :
                    /\ _cache' = StoreModule(cache_key, scan.pages)
                    /\ sessions' = StoreSession(session_state, cache_key, scan.pages)
                    /\ calls' = Append(calls, CallRecord(raw, domain, session_state,
                                    source, cands, scan,
                                    <<domain \o <<"/", "robots.txt">> >>, scan.pages))
    /\ UNCHANGED <<web, threads>>

\* ---- get_site_pages run by two sessions at once: each session's script
\* runs in its own thread, and every access to a cache is one step

\* the frame of a call: where it stands, its locals, the candidates it has
\* fetched with what each one found, and what it returned
ThreadIdle ==
    [ pc |-> "idle", domain |-> <<>>, source |-> "", candidates |-> <<>>, tried |-> <<>>,
      pages |-> <<>>, returned |-> None ]

NoThreads == [t \in Sessions |-> ThreadIdle]

\* the call: the argument is normalised (lines 69-74)
ThreadCall(t, raw) ==
    /\ threads[t].pc = "idle"
    /\ threads' = [threads EXCEPT ![t] = [@ EXCEPT !.pc = "check",
                                                   !.domain = NormalizeDomain(raw)]]
    /\ UNCHANGED <<web, _cache, sessions, calls>>

\* the cache checks with the key reserved on a miss: `_cache[cache_key] = []`
\* before the scan
ThreadCheckReserves(t) ==
    /\ threads[t].pc = "check"
    /\ \E key \in {CacheKey(threads[t].domain)} :
       \E source \in {CachedIn(key, t)} :
          /\ threads' = [threads EXCEPT ![t] =
                CASE source = "session" ->
                        [@ EXCEPT !.pc = "done", !.source = source,
                                  !.returned = sessions[t][key]]
                  [] source = "module" ->
                        [@ EXCEPT !.pc = "done", !.source = source,
                                  !.returned = _cache[key]]
                  [] OTHER -> [@ EXCEPT !.pc = "robots", !.source = source]]
          /\ _cache' = IF source = "miss" THEN DictSet(_cache, key, <<>>) ELSE _cache
    /\ UNCHANGED <<web, sessions, calls>>

\* the cache checks (lines 76-82): a hit returns what the cache holds
ThreadCheck(t) ==
    /\ threads[t].pc = "check"
    /\ \E key \in {CacheKey(threads[t].domain)} :
       \E source \in {CachedIn(key, t)} :
          threads' = [threads EXCEPT ![t] =
                CASE source = "session" ->
                        [@ EXCEPT !.pc = "done", !.source = source,
                                  !.returned = sessions[t][key]]
                  [] source = "module" ->
                        [@ EXCEPT !.pc = "done", !.source = source,
                                  !.returned = _cache[key]]
                  [] OTHER -> [@ EXCEPT !.pc = "robots", !.source = source]]
    /\ UNCHANGED <<web, _cache, sessions, calls>>

\* robots.txt and the fallbacks (lines 84-104)
ThreadRobots(t) ==
    /\ threads[t].pc = "robots"
    /\ threads' = [threads EXCEPT ![t] =
            [@ EXCEPT !.pc = "scan",
                      !.candidates = sitemap_candidates(web, threads[t].domain)]]
    /\ UNCHANGED <<web, _cache, sessions, calls>>

\* one pass of the candidate loop (lines 106-110)
ThreadScan(t) ==
    /\ threads[t].pc = "scan"
    /\ \E k \in {Len(threads[t].tried) + 1} :
       \E found \in {_fetch_and_parse(web, threads[t].candidates[k],
                                       threads[t].domain, 0).pages} :
          threads' = [threads EXCEPT ![t] =
                [@ EXCEPT !.tried = Append(@, [url |-> threads[t].candidates[k],
                                                found |-> found]),
                          !.pages = IF found # <<>> THEN found ELSE @,
                          !.pc = IF found # <<>> \/ k = Len(threads[t].candidates)
                                 THEN "store" ELSE "scan"]]
    /\ UNCHANGED <<web, _cache, sessions, calls>>

\* _cache[cache_key] = pages (line 113)
ThreadStoreModule(t) ==
    /\ threads[t].pc = "store"
    /\ _cache' = StoreModule(CacheKey(threads[t].domain), threads[t].pages)
    /\ threads' = [threads EXCEPT ![t] = [@ EXCEPT !.pc = "store_session"]]
    /\ UNCHANGED <<web, sessions, calls>>

\* session_state[cache_key] = pages; return pages (lines 114-117)
ThreadStoreSession(t) ==
    /\ threads[t].pc = "store_session"
    /\ sessions' = StoreSession(t, CacheKey(threads[t].domain), threads[t].pages)
    /\ threads' = [threads EXCEPT ![t] = [@ EXCEPT !.pc = "done",
                                                   !.returned = threads[t].pages]]
    /\ UNCHANGED <<web, _cache, calls>>

ResolverInit ==
    /\ web \in Worlds
    /\ _cache = EmptyDict
    /\ sessions = [s \in Sessions |-> EmptyDict]
    /\ calls = <<>>
    /\ threads = NoThreads

resolverVars == <<web, _cache, sessions, calls, threads>>


\* ------------------------------------------------------ content_fetcher.py

CONTENT_SELECTORS ==
    << ".post-content", ".entry-content", ".post-body", ".article-body", ".blog-post",
       ".single-post", "#content", ".content", "article", "main" >>

_MIN_CONTENT_WORDS == 100

_MIN_USABLE_WORDS == 50

\* the characters _is_blocked_page looks at
BlockScanChars == 5000

signals ==
    { "just a moment", "checking your browser", "cf-challenge", "challenge-platform",
      "turnstile", "ray-id" }

\* An element of a parsed document: the word count of each of its text
\* nodes in document order, its h2/h3 headings and its anchors with an href.
Element(strings, headings, anchors) ==
    [strings |-> strings, headings |-> headings, anchors |-> anchors]

RECURSIVE Sum(_)
Sum(ns) == IF ns = <<>> THEN 0 ELSE Head(ns) + Sum(Tail(ns))

\* len(e.get_text(separator="\n", strip=True).split()): the text nodes are
\* joined by newlines, so every word of every node counts
SeparatedWords(e) == Sum(e.strings)

\* len(e.get_text(strip=True).split()): the stripped text nodes are joined
\* with nothing between them, so the last word of a node and the first word
\* of the next count as one
GluedWords(e) ==
    LET filled == Cardinality({i \in 1..Len(e.strings) : e.strings[i] > 0})
    IN IF filled = 0 THEN 0 ELSE Sum(e.strings) - (filled - 1)

\* the text of an HTML response: `pad` characters that hold no signal, then
\* the lexemes of `head`, then the document `page`
Html(pad, head, page) == [type |-> "html", pad |-> pad, head |-> head, page |-> page]

\* len(lexeme)
CharLen(x) ==
    CASE x \in {"Just a moment", "JUST A MOMENT"} -> 13
      [] x = "..." -> 3
      [] x = "Checking your browser" -> 21
      [] OTHER -> 6

\* the lexemes of s that lie within its first n characters; a lexeme the
\* cut falls into is left as a fragment
RECURSIVE TakeChars(_, _)
TakeChars(s, n) ==
    IF s = <<>> \/ n <= 0 THEN <<>>
    ELSE IF CharLen(Head(s)) <= n
         THEN <<Head(s)>> \o TakeChars(Tail(s), n - CharLen(Head(s)))
         ELSE <<"(fragment)">>

\* html[:n], without the padding
FirstChars(html, n) == IF html.pad >= n THEN <<>> ELSE TakeChars(html.head, n - html.pad)

\* the scan without lower-casing
_is_blocked_page_cased(html) ==
    LET first == FirstChars(html, BlockScanChars)
    IN \E i \in 1..Len(first) : first[i] \in signals

_is_blocked_page(html) ==
    LET lower == Lower(FirstChars(html, BlockScanChars))
    IN \E i \in 1..Len(lower) : lower[i] \in signals

RECURSIVE SelectSeq2(_, _, _)
SelectSeq2(s, domain, kind) ==
    IF s = <<>> THEN <<>>
    ELSE LET href == Head(s).href
             class ==
                 IF href = <<>> \/ StartsWith(href, <<"#">>) \/ StartsWith(href, <<"mailto", ":">>)
                 THEN "skip"
                 ELSE IF domain # <<>> /\ IsInfix(domain, href) THEN "internal"
                 ELSE IF StartsWith(href, <<"/">>) THEN "internal"
                 ELSE IF StartsWith(href, <<"http">>) THEN "external"
                 ELSE "skip"
         IN (IF class = kind THEN <<Head(s)>> ELSE <<>>) \o SelectSeq2(Tail(s), domain, kind)

\* the anchors _parse_content files under internal_links / external_links
LinksOf(content_soup, domain, kind) == SelectSeq2(content_soup.anchors, domain, kind)

\* the dict _parse_content returns; body_text is the text of the element,
\* one entry per text node
_parse_content(url, slug, title, content_soup, domain) ==
    [ url |-> url,
      slug |-> slug,
      title |-> title,
      headings |-> content_soup.headings,
      body_text |-> content_soup.strings,
      internal_links |-> LinksOf(content_soup, domain, "internal"),
      external_links |-> LinksOf(content_soup, domain, "external"),
      word_count |-> SeparatedWords(content_soup),
      error |-> None ]

\* ---- JSON values as resp.json() returns them
\* (a string of HTML is held as the element it parses to)
JNull == [j |-> "null"]
JNum(n) == [j |-> "num", num |-> n]
JStr(text) == [j |-> "str", text |-> text, empty |-> FALSE]
JHtml(element) == [j |-> "str", html |-> element, empty |-> FALSE]
JEmptyStr == [j |-> "str", text |-> <<>>, empty |-> TRUE]
JList(items) == [j |-> "list", items |-> items]
JDict(fields) == [j |-> "dict", fields |-> fields]
EmptyJDict == JDict([k \in {} |-> JNull])

JsonBody(value) == [type |-> "json", value |-> value]

\* `not x`
Falsy(x) ==
    \/ x.j = "null"
    \/ x.j = "num" /\ x.num = 0
    \/ x.j = "str" /\ x.empty
    \/ x.j = "list" /\ Len(x.items) = 0
    \/ x.j = "dict" /\ DOMAIN x.fields = {}

\* x.get(key, default) of a dict
JGet(x, key, default) == IF key \in DOMAIN x.fields THEN x.fields[key] ELSE default

\* what a function returns or raises
Returns(value) == [raised |-> FALSE, value |-> value]
Raises(exc) == [raised |-> TRUE, exc |-> exc]

\* wp_post.get(field, {}).get("rendered", ""): AttributeError when either
\* receiver is not a dict
Rendered(wp_post, field) ==
    IF wp_post.j # "dict" THEN Raises("AttributeError")
    ELSE LET inner == JGet(wp_post, field, EmptyJDict)
         IN IF inner.j # "dict" THEN Raises("AttributeError")
            ELSE Returns(JGet(inner, "rendered", JEmptyStr))

\* the slug _try_wp_api asks for
WpSlug(url) ==
    LET path == RStrip(UrlPath(url), "/")
    IN IF Index(path, "/") # 0 THEN LastSegment(path, "/") ELSE <<>>

api_url(url) ==
    UrlScheme(url) \o <<":", "/", "/">> \o UrlNetloc(url)
    \o <<"/", "wp", "-", "json", "/", "wp", "/", "v2", "/", "posts", "?", "slug=">>
    \o WpSlug(url) \o <<"&", "_", "fields=title,content,link">>

\* the part of _try_wp_api past the request, given the decoded JSON
WpParse(url, posts) ==
    IF Falsy(posts) \/ posts.j # "list" THEN Returns(NoDict)
    ELSE LET wp_post == posts.items[1]
             title == Rendered(wp_post, "title")
             content_html == Rendered(wp_post, "content")
         IN IF title.raised THEN title
            ELSE IF content_html.raised THEN content_html
            ELSE IF Falsy(content_html.value) THEN Returns(NoDict)
            ELSE IF content_html.value.j # "str" THEN Raises("TypeError")
            ELSE IF ~Falsy(title.value) /\ title.value.j # "str" THEN Raises("TypeError")
            ELSE Returns(_parse_content(url, WpSlug(url),
                            IF title.value.j = "str" THEN title.value.text ELSE None,
                            content_html.value.html, UrlNetloc(url)))

\* _try_wp_api(url) when the REST endpoint answers `reply`: the parsed
\* result dict, None, or the exception that escapes
_try_wp_api(url, reply) ==
    IF WpSlug(url) = <<>> THEN Returns(NoDict)
    ELSE IF reply.kind = "error" \/ RaisesForStatus(reply) \/ reply.body.type # "json"
         THEN Returns(NoDict)
         ELSE WpParse(url, reply.body.value)

\* the slug fetch_post reports
PostSlug(url) ==
    LET path == RStrip(UrlPath(url), "/")
    IN IF Index(path, "/") # 0 THEN LastSegment(path, "/")
       ELSE IF path # <<>> THEN path ELSE <<"post">>

\* the title fetch_post reports: the first h1, else the document title
PageTitle(soup) ==
    IF soup.h1 # None THEN soup.h1 ELSE IF soup.title # None THEN soup.title ELSE <<>>

\* the content area found by the selector loop from the i-th selector on,
\* NoDict when no selector qualifies
RECURSIVE SelectFrom(_, _)
SelectFrom(soup, i) ==
    IF i > Len(CONTENT_SELECTORS) THEN NoDict
    ELSE LET selector == CONTENT_SELECTORS[i]
         IN IF selector \in DOMAIN soup.regions
               /\ GluedWords(soup.regions[selector]) >= _MIN_CONTENT_WORDS
            THEN soup.regions[selector]
            ELSE SelectFrom(soup, i + 1)

content_area(soup) ==
    LET selected == SelectFrom(soup, 1)
    IN IF selected # NoDict THEN selected
       ELSE IF soup.body # NoDict THEN soup.body ELSE soup.doc

\* str(e) of the HTTPError raise_for_status raises
HttpErrorText(resp) ==
    <<ToString(resp.status), IF resp.status < 500 THEN " Client Error" ELSE " Server Error">>

BlockedText == <<"Cloudflare blocked the request (challenge page returned)">>

WordCountText(word_count) ==
    << "Page returned only ", ToString(word_count), " words ",
       "(likely blocked by Cloudflare or requires JavaScript)" >>

DefaultText == <<"Failed to fetch the page">>

Suggestion ==
    << ". ", "This site may be blocking cloud-hosted requests. ",
       "Try pasting the post content manually." >>

\* the final return with an empty content field left in
FailedResultWithCount(url, error) ==
    [ error |-> (IF error = None \/ error = <<>> THEN DefaultText ELSE error) \o Suggestion,
      url |-> url, word_count |-> 0 ]

\* the dict of the final return
FailedResult(url, error) ==
    [ error |-> (IF error = None \/ error = <<>> THEN DefaultText ELSE error) \o Suggestion,
      url |-> url ]


\* ---- what the servers may answer

\* requests.get raised an exception whose str() is message
Exception(message) == [kind |-> "error", message |-> message]

Anchor(text, href) == [text |-> text, href |-> href]

Heading(level, text) == [level |-> level, text |-> text]

\* a parsed document: the text of its first h1 and of its <title> (None when
\* it has none), the first match of every selector that matches, its <body>
\* (NoDict when it has none) and the document as a whole
Soup(h1, title, regions, body, doc) ==
    [h1 |-> h1, title |-> title, regions |-> regions, body |-> body, doc |-> doc]

NoRegions == [k \in {} |-> NoDict]

PostAnchors ==
    << Anchor(<<"other">>, <<"/", "blog", "/", "other", "-", "post">>),
       Anchor(<<"top">>, <<"#", "top">>),
       Anchor(<<"wiki">>, Https \o <<"wikipedia.org", "/", "X">>),
       Anchor(<<"again">>, <<"/", "blog", "/", "other", "-", "post">>),
       Anchor(<<"home">>, Site \o <<"/">>) >>

Plain(strings) == Element(strings, <<>>, <<>>)

\* an <article> of 900 words in a longer body
ArticlePage ==
    Soup(<<"My Post">>, <<"My Post | a.io">>,
         "article" :> Element(<<450, 450>>, <<Heading("h2", <<"Why">>)>>, PostAnchors),
         Element(<<12, 450, 450, 8>>, <<Heading("h2", <<"Why">>)>>, PostAnchors),
         Plain(<<3, 12, 450, 450, 8>>))

\* a small .post-content card before the real <main>
WidgetPage ==
    Soup(None, <<"Blog">>,
         (".post-content" :> Plain(<<30>>)) @@ ("main" :> Plain(<<60, 41>>)),
         Plain(<<30, 60, 41>>), Plain(<<1, 30, 60, 41>>))

\* a .content of 100 words in two text nodes
SplitPage ==
    Soup(<<"Split">>, None, ".content" :> Plain(<<50, 50>>),
         Plain(<<50, 50>>), Plain(<<50, 50>>))

\* an .entry-content of ten paragraphs of ten words each, after a menu and
\* before a footer; <main> wraps all three
ParagraphsPage ==
    Soup(<<"Ten">>, None,
         (".entry-content" :> Element(<<10, 10, 10, 10, 10, 10, 10, 10, 10, 10>>, <<>>, <<>>))
         @@ ("main" :> Element(<<20, 10, 10, 10, 10, 10, 10, 10, 10, 10, 10, 5>>, <<>>,
                               <<Anchor(<<"menu">>, <<"/">>)>>)),
         Element(<<20, 10, 10, 10, 10, 10, 10, 10, 10, 10, 10, 5>>, <<>>,
                 <<Anchor(<<"menu">>, <<"/">>)>>),
         Element(<<1, 20, 10, 10, 10, 10, 10, 10, 10, 10, 10, 10, 5>>, <<>>,
                 <<Anchor(<<"menu">>, <<"/">>)>>))

\* an <article> of 900 words with two links to another post, one to
\* Wikipedia and a share button that carries the address of the post
SharePage ==
    Soup(<<"My Post">>, None,
         "article" :> Element(<<900>>, <<>>,
            << Anchor(<<"other">>, <<"/", "blog", "/", "other", "-", "post">>),
               Anchor(<<"again">>, <<"/", "blog", "/", "other", "-", "post">>),
               Anchor(<<"wiki">>, Https \o <<"wikipedia.org", "/", "X">>),
               Anchor(<<"share">>, Https \o <<"twitter.com", "/", "share", "?", "url=",
                                              "a.io", "/", "blog", "/", "my", "-", "post">>) >>),
         Plain(<<900>>), Plain(<<900>>))

\* a page whose body holds n words and matches no selector
BarePage(n) == Soup(None, <<"Loading">>, NoRegions, Plain(<<n>>), Plain(<<1, n>>))

\* a document without <body>
EmptyPage == Soup(None, None, NoRegions, NoDict, Plain(<<>>))

Pages == {ArticlePage, WidgetPage, SplitPage, ParagraphsPage, SharePage, BarePage(40),
          BarePage(49), BarePage(50), EmptyPage}

ChallengeHeads == { <<"Just a moment", "...">>, <<"JUST A MOMENT", "...">> }

\* where a challenge phrase may start
Pads == {0, BlockScanChars - 16, BlockScanChars - 13, BlockScanChars - 12}

DirectOutcomes ==
    {Exception(<<"Connection refused">>), Exception(<<>>)}
    \cup {Response(200, Html(0, <<>>, page)) : page \in Pages}
    \cup {Response(status, Html(pad, head, BarePage(40))) :
            status \in {200, 403}, pad \in Pads, head \in ChallengeHeads}
    \cup {Response(200, Html(0, <<"Checking your browser">>, BarePage(40))),
          Response(503, Html(0, <<>>, BarePage(40))),
          Response(304, Html(0, <<>>, EmptyPage)),
          Response(404, Html(0, <<>>, BarePage(50)))}

WpPost(title, content) == JDict(("title" :> title) @@ ("content" :> content))

RenderedJ(v) == JDict("rendered" :> v)

WpContent(n) == RenderedJ(JHtml(Element(<<n - 10, 10>>, <<>>, PostAnchors)))

WpJson ==
    { JNull, JList(<<>>), JDict("code" :> JStr(<<"rest_no_route">>)),
      JList(<<JNum(1)>>),
      JList(<<EmptyJDict>>),
      JList(<<WpPost(JStr(<<"My Post">>), WpContent(300))>>),
      JList(<<WpPost(JNull, WpContent(300))>>),
      JList(<<WpPost(RenderedJ(JStr(<<"My Post">>)), JHtml(Plain(<<300>>)))>>),
      JList(<<WpPost(RenderedJ(JNum(7)), WpContent(300))>>),
      JList(<<WpPost(RenderedJ(JStr(<<"My Post">>)), RenderedJ(JNum(7)))>>),
      JList(<<WpPost(RenderedJ(JStr(<<"My Post">>)), RenderedJ(JEmptyStr))>>),
      JList(<<WpPost(RenderedJ(JStr(<<"My Post">>)), WpContent(40))>>),
      JList(<<WpPost(RenderedJ(JStr(<<"My Post">>)), WpContent(50))>>),
      JList(<<WpPost(RenderedJ(JEmptyStr), WpContent(300))>>) }

WpReplies ==
    {Exception(<<"Read timed out">>), NotFound, Response(200, Html(0, <<>>, EmptyPage))}
    \cup {Response(200, JsonBody(j)) : j \in WpJson}

\* the post URLs the callers pass
PostUrls == {PostA, PostB, PostC}

\* ---- the state of the processing loop of app.py

VARIABLES
    urls,     \* the batch of post URLs
    idx,        \* the index of the URL in hand
    lpc,      \* where the loop stands: top, fetching, audit, rewrite, done, aborted
    post,     \* the fetched post of the URL in hand
    audit,    \* its audit
    results,  \* the result list
    stored    \* st.session_state["results"]

loopVars == <<urls, idx, lpc, post, audit, results, stored>>

\* ---- fetch_post, one step at a time

VARIABLES
    fpc,         \* where fetch_post stands: idle, direct, extract, wp, returned, raised
    furl,        \* its argument
    profile,     \* the index in _HEADER_SETS of the next direct request
    response,    \* the accepted response, NoDict while there is none
    last_error,  \* the diagnostic recorded last, None while there is none
    attempts,    \* the direct requests made, with what came back and how it was taken
    wp,          \* the call of _try_wp_api, NoDict while there was none
    fresult      \* what fetch_post returned, or the exception that left it

fetchVars == <<fpc, furl, profile, response, last_error, attempts, wp, fresult>>

\* len(_HEADER_SETS)
HeaderSets == 2

FetchIdle ==
    /\ fpc = "idle"
    /\ furl = <<>>
    /\ profile = 1
    /\ response = NoDict
    /\ last_error = None
    /\ attempts = <<>>
    /\ wp = NoDict
    /\ fresult = NoDict

\* the call: fetch_post(url)
fetch_post(url) ==
    /\ fpc = "idle"
    /\ fpc' = "direct"
    /\ furl' = url
    /\ UNCHANGED <<profile, response, last_error, attempts, wp, fresult>>

\* how one request of the header loop is taken
Verdict(outcome) ==
    IF outcome.kind = "error" THEN "exception"
    ELSE IF RaisesForStatus(outcome) THEN "status"
    ELSE IF _is_blocked_page(outcome.body) THEN "blocked"
    ELSE "accepted"

\* the diagnostic a failed request records
ErrorOf(outcome) ==
    CASE Verdict(outcome) = "exception" -> outcome.message
      [] Verdict(outcome) = "status" -> HttpErrorText(outcome)
      [] OTHER -> BlockedText

\* one pass of the loop over _HEADER_SETS, the server answering `outcome`
DirectRequest(outcome) ==
    /\ fpc = "direct"
    /\ \E verdict \in {Verdict(outcome)} :
          /\ attempts' = Append(attempts,
                  [ profile |-> profile, outcome |-> outcome, verdict |-> verdict,
                    error |-> IF verdict = "accepted" THEN None ELSE ErrorOf(outcome) ])
          /\ IF verdict = "accepted"
             THEN /\ response' = outcome
                  /\ fpc' = "extract"
                  /\ UNCHANGED <<last_error, profile>>
             ELSE /\ last_error' = ErrorOf(outcome)
                  /\ profile' = profile + 1
                  /\ fpc' = IF profile = HeaderSets THEN "wp" ELSE "direct"
                  /\ UNCHANGED response
    /\ UNCHANGED <<furl, wp, fresult>>
    /\ UNCHANGED <<resolverVars, loopVars>>

\* the usability gate returning the failure at once, without the fallback
ExtractNoFallback ==
    /\ fpc = "extract"
    /\ \E word_count \in {SeparatedWords(content_area(response.body.page))} :
          /\ fresult' =
                IF word_count >= _MIN_USABLE_WORDS
                THEN Returns(_parse_content(furl, PostSlug(furl),
                        PageTitle(response.body.page),
                        content_area(response.body.page), UrlNetloc(furl)))
                ELSE Returns(FailedResult(furl, WordCountText(word_count)))
          /\ fpc' = "returned"
    /\ UNCHANGED <<furl, profile, response, last_error, attempts, wp>>
    /\ UNCHANGED <<resolverVars, loopVars>>

\* the usability gate recording its diagnostic only when none is there yet
ExtractKeepsEarlierError ==
    /\ fpc = "extract"
    /\ \E word_count \in {SeparatedWords(content_area(response.body.page))} :
          IF word_count >= _MIN_USABLE_WORDS
          THEN /\ fresult' = Returns(_parse_content(furl, PostSlug(furl),
                                PageTitle(response.body.page),
                                content_area(response.body.page), UrlNetloc(furl)))
               /\ fpc' = "returned"
               /\ UNCHANGED last_error
          ELSE /\ last_error' =
                     IF last_error = None THEN WordCountText(word_count) ELSE last_error
               /\ fpc' = "wp"
               /\ UNCHANGED fresult
    /\ UNCHANGED <<furl, profile, response, attempts, wp>>
    /\ UNCHANGED <<resolverVars, loopVars>>

\* the extraction from the accepted response and the usability gate
Extract ==
    /\ fpc = "extract"
    /\ \E soup \in {response.body.page} :
       \E area \in {content_area(soup)} :
       \E word_count \in {SeparatedWords(area)} :
          IF word_count >= _MIN_USABLE_WORDS
          THEN /\ fresult' = Returns(_parse_content(furl, PostSlug(furl), PageTitle(soup),
                                                    area, UrlNetloc(furl)))
               /\ fpc' = "returned"
               /\ UNCHANGED last_error
          ELSE /\ last_error' = WordCountText(word_count)
               /\ fpc' = "wp"
               /\ UNCHANGED fresult
    /\ UNCHANGED <<furl, profile, response, attempts, wp>>
    /\ UNCHANGED <<resolverVars, loopVars>>

\* the fallback returning whatever _try_wp_api parsed, without the word gate
WpFallbackUngated(reply) ==
    /\ fpc = "wp"
    /\ \E wp_result \in {_try_wp_api(furl, reply)} :
          /\ wp' = [ slug |-> WpSlug(furl),
                     request |-> IF WpSlug(furl) = <<>> THEN None ELSE api_url(furl),
                     reply |-> IF WpSlug(furl) = <<>> THEN NoDict ELSE reply,
                     result |-> wp_result ]
          /\ IF wp_result.raised
             THEN /\ fresult' = wp_result
                  /\ fpc' = "raised"
             ELSE /\ fresult' =
                        IF wp_result.value # NoDict THEN wp_result
                        ELSE Returns(FailedResult(furl, last_error))
                  /\ fpc' = "returned"
    /\ UNCHANGED <<furl, profile, response, last_error, attempts>>
    /\ UNCHANGED <<resolverVars, loopVars>>

\* the WordPress fallback, the REST endpoint answering `reply`, and the
\* final return
WpFallback(reply) ==
    /\ fpc = "wp"
    /\ \E wp_result \in {_try_wp_api(furl, reply)} :
          /\ wp' = [ slug |-> WpSlug(furl),
                     request |-> IF WpSlug(furl) = <<>> THEN None ELSE api_url(furl),
                     reply |-> IF WpSlug(furl) = <<>> THEN NoDict ELSE reply,
                     result |-> wp_result ]
          /\ IF wp_result.raised
             THEN /\ fresult' = wp_result
                  /\ fpc' = "raised"
             ELSE /\ fresult' =
                        IF wp_result.value # NoDict
                           /\ wp_result.value.word_count >= _MIN_USABLE_WORDS
                        THEN wp_result
                        ELSE Returns(FailedResult(furl, last_error))
                  /\ fpc' = "returned"
    /\ UNCHANGED <<furl, profile, response, last_error, attempts>>
    /\ UNCHANGED <<resolverVars, loopVars>>

\* ------------------------------------------------------------------ app.py

LoopIdle ==
    /\ urls = <<>>
    /\ idx = 1
    /\ lpc = "idle"
    /\ post = NoDict
    /\ audit = NoDict
    /\ results = <<>>
    /\ stored = <<>>

\* fetch_post is over: its frame is gone
FetchGone ==
    /\ fpc' = "idle"
    /\ furl' = <<>>
    /\ profile' = 1
    /\ response' = NoDict
    /\ last_error' = None
    /\ attempts' = <<>>
    /\ wp' = NoDict
    /\ fresult' = NoDict

\* the entry of a URL that failed
ErrorEntry(url, error) == [url |-> url, error |-> error]

\* the entry of a rewritten post
DoneEntry(url, p, a, rewritten) ==
    [ url |-> url, title |-> p.title, slug |-> p.slug, word_count_before |-> p.word_count,
      audit |-> a, rewritten |-> rewritten, error |-> None ]

\* the loop takes the next URL and calls fetch_post
LoopFetch ==
    /\ lpc = "top"
    /\ idx <= Len(urls)
    /\ fetch_post(urls[idx])
    /\ lpc' = "fetching"
    /\ UNCHANGED <<urls, idx, post, audit, results, stored>>
    /\ UNCHANGED resolverVars

\* the loop without its check of post.get("error"): the audit follows every
\* fetch
LoopFetchedAuditsAnyway ==
    /\ lpc = "fetching"
    /\ fpc = "returned"
    /\ FetchGone
    /\ post' = fresult.value
    /\ lpc' = "audit"
    /\ UNCHANGED <<results, idx>>
    /\ UNCHANGED <<urls, audit, stored>>
    /\ UNCHANGED resolverVars

\* fetch_post returned: an error entry and the next URL, or on to the audit
LoopFetched ==
    /\ lpc = "fetching"
    /\ fpc = "returned"
    /\ FetchGone
    /\ IF fresult.value.error # None
       THEN /\ results' = Append(results, ErrorEntry(urls[idx], fresult.value.error))
            /\ idx' = idx + 1
            /\ lpc' = "top"
            /\ UNCHANGED post
       ELSE /\ post' = fresult.value
            /\ lpc' = "audit"
            /\ UNCHANGED <<results, idx>>
    /\ UNCHANGED <<urls, audit, stored>>
    /\ UNCHANGED resolverVars

\* an exception left fetch_post: nothing in the loop catches it
LoopFetchRaised ==
    /\ lpc = "fetching"
    /\ fpc = "raised"
    /\ lpc' = "aborted"
    /\ FetchGone
    /\ UNCHANGED <<urls, idx, post, audit, results, stored>>
    /\ UNCHANGED resolverVars

\* what analyze_post may do: raise, or return whatever JSON the model wrote
AuditOutcomes ==
    { Raises("APIError"),
      Returns(JDict("verdict" :> JStr(<<"thin">>))),
      Returns(JList(<<JStr(<<"thin">>)>>)) }

\* the audit pass; audit.get(...) follows it outside the try
Audit(outcome) ==
    /\ lpc = "audit"
    /\ IF outcome.raised
       THEN /\ results' = Append(results, ErrorEntry(urls[idx], <<"Audit: ", outcome.exc>>))
            /\ idx' = idx + 1
            /\ lpc' = "top"
            /\ post' = NoDict
            /\ UNCHANGED audit
       ELSE /\ audit' = outcome.value
            /\ lpc' = IF outcome.value.j = "dict" THEN "rewrite" ELSE "aborted"
            /\ UNCHANGED <<results, idx, post>>
    /\ UNCHANGED <<urls, stored, fetchVars>>
    /\ UNCHANGED resolverVars

RewriteOutcomes == { Raises("APIError"), Returns(<<"# My Post">>) }

\* the rewrite pass and the entry of the URL
Rewrite(outcome) ==
    /\ lpc = "rewrite"
    /\ results' = Append(results,
            IF outcome.raised THEN ErrorEntry(urls[idx], <<"Rewrite: ", outcome.exc>>)
            ELSE DoneEntry(urls[idx], post, audit, outcome.value))
    /\ idx' = idx + 1
    /\ lpc' = "top"
    /\ post' = NoDict
    /\ audit' = NoDict
    /\ UNCHANGED <<urls, stored, fetchVars>>
    /\ UNCHANGED resolverVars

\* the loop is over: the results go to the session state
LoopEnd ==
    /\ lpc = "top"
    /\ idx > Len(urls)
    /\ lpc' = "done"
    /\ stored' = results
    /\ UNCHANGED <<urls, idx, post, audit, results, fetchVars>>
    /\ UNCHANGED resolverVars

\* ---------------------------------------------------------- specifications

NoWeb == [u \in {} |-> NoDict]

ResolverIdle ==
    /\ web = NoWeb
    /\ _cache = EmptyDict
    /\ sessions = [s \in Sessions |-> EmptyDict]
    /\ calls = <<>>
    /\ threads = NoThreads

vars == <<resolverVars, fetchVars, loopVars>>

\* the resolver: get_site_pages calls, one after the other
Init == ResolverInit /\ FetchIdle /\ LoopIdle

GetSitePages ==
    /\ \E raw \in Domains, session_state \in Sessions \cup {NoSessionState} :
            get_site_pages(raw, session_state)
    /\ UNCHANGED <<fetchVars, loopVars>>

Next == GetSitePages

Spec == Init /\ [][Next]_vars

\* the extractor: one fetch_post call against every server behaviour
FetchInit == ResolverIdle /\ FetchIdle /\ LoopIdle

FetchCall == \E url \in PostUrls : fetch_post(url) /\ UNCHANGED <<resolverVars, loopVars>>

FetchDirect == \E outcome \in DirectOutcomes : DirectRequest(outcome)

FetchWp == \E reply \in WpReplies : WpFallback(reply)

FetchNext == FetchCall \/ FetchDirect \/ Extract \/ FetchWp

SpecFetch == FetchInit /\ [][FetchNext]_vars

\* the driver: the processing loop over a batch, against a few server
\* behaviours
Batches == UNION {[1..n -> {PostA, PostC}] : n \in 1..MaxUrls}

LoopDirectOutcomes ==
    { Exception(<<"Connection refused">>),
      Response(200, Html(0, <<>>, ArticlePage)),
      Response(200, Html(0, <<>>, BarePage(40))) }

LoopWpReplies ==
    { NotFound,
      Response(200, JsonBody(JList(<<JNum(1)>>))),
      Response(200, JsonBody(JList(<<WpPost(RenderedJ(JStr(<<"My Post">>)), WpContent(300))>>))) }

LoopInit ==
    /\ ResolverIdle
    /\ FetchIdle
    /\ urls \in Batches
    /\ idx = 1
    /\ lpc = "top"
    /\ post = NoDict
    /\ audit = NoDict
    /\ results = <<>>
    /\ stored = <<>>

LoopDirect == \E outcome \in LoopDirectOutcomes : DirectRequest(outcome)

LoopWp == \E reply \in LoopWpReplies : WpFallback(reply)

LoopAudit == \E outcome \in AuditOutcomes : Audit(outcome)

LoopRewrite == \E outcome \in RewriteOutcomes : Rewrite(outcome)

LoopNext ==
    \/ LoopFetch
    \/ LoopDirect
    \/ Extract
    \/ LoopWp
    \/ LoopFetched
    \/ LoopFetchRaised
    \/ LoopAudit
    \/ LoopRewrite
    \/ LoopEnd

SpecLoop == LoopInit /\ [][LoopNext]_vars

\* two sessions resolve the same domain at the same time while the site
\* publishes, breaks or withdraws its /sitemap.xml
RaceWorlds ==
    { w \in Worlds :
        /\ w[UrlRobots] = Response(200, TextBody(RobotsText(<<>>)))
        /\ w[UrlCustom1] = NotFound
        /\ w[UrlSitemapIndex] = NotFound
        /\ w[UrlWpSitemap] # NotFound }

\* the two spellings of the domain
RaceDomains == { <<"a.io">>, Https \o <<"a.io", "/">> }

RaceInit ==
    /\ web \in RaceWorlds
    /\ _cache = EmptyDict
    /\ sessions = [s \in Sessions |-> EmptyDict]
    /\ calls = <<>>
    /\ threads = NoThreads
    /\ FetchIdle
    /\ LoopIdle

RaceCall ==
    /\ \E t \in Sessions, raw \in RaceDomains : ThreadCall(t, raw)
    /\ UNCHANGED <<fetchVars, loopVars>>

RaceCheck == (\E t \in Sessions : ThreadCheck(t)) /\ UNCHANGED <<fetchVars, loopVars>>

RaceRobots == (\E t \in Sessions : ThreadRobots(t)) /\ UNCHANGED <<fetchVars, loopVars>>

RaceScan == (\E t \in Sessions : ThreadScan(t)) /\ UNCHANGED <<fetchVars, loopVars>>

RaceStoreModule ==
    (\E t \in Sessions : ThreadStoreModule(t)) /\ UNCHANGED <<fetchVars, loopVars>>

RaceStoreSession ==
    (\E t \in Sessions : ThreadStoreSession(t)) /\ UNCHANGED <<fetchVars, loopVars>>

\* the site changes what it serves
SiteChanges ==
    /\ \E t \in Sessions : threads[t].pc \notin {"idle", "done"}
    /\ web' \in RaceWorlds \ {web}
    /\ UNCHANGED <<_cache, sessions, calls, threads, fetchVars, loopVars>>

RaceNext ==
    \/ RaceCall
    \/ RaceCheck
    \/ RaceRobots
    \/ RaceScan
    \/ RaceStoreModule
    \/ RaceStoreSession
    \/ SiteChanges

SpecRace == RaceInit /\ [][RaceNext]_vars

\* ------------------------------------------------- claims on the resolver

MissCalls == {i \in 1..Len(calls) : calls[i].source = "miss"}

\* C1: of two calls whose domains normalise to the same string, whatever
\* session cache each one is given, the later one requests nothing over HTTP
\* and returns the page sequence the earlier one returned, also when that
\* sequence is empty.
C1_RepeatedCallServedFromCache ==
    \A i, j \in 1..Len(calls) :
        (i < j /\ calls[i].domain = calls[j].domain)
            => (calls[j].requests = <<>> /\ calls[j].pages = calls[i].pages)

\* a first call that found no page, repeated under another session cache
C1_Witness ==
    \E i, j \in 1..Len(calls) :
        /\ i < j
        /\ calls[i].domain = calls[j].domain
        /\ calls[i].raw # calls[j].raw
        /\ calls[i].session_state # calls[j].session_state
        /\ calls[j].session_state # NoSessionState
        /\ calls[i].source = "miss"
        /\ calls[i].pages = <<>>

\* C4: the candidates are fetched in order; the first one whose parse yields
\* a page ends the scan, and what is returned is that candidate's pages alone.
C4_FirstCandidateWins ==
    \A i \in MissCalls :
        LET c == calls[i]
            n == Len(c.tried)
        IN /\ n >= 1 /\ n <= Len(c.candidates)
           /\ \A k \in 1..n :
                /\ c.tried[k].url = c.candidates[k]
                /\ c.tried[k].found = _fetch_and_parse(web, c.candidates[k], c.domain, 0).pages
                /\ k < n => c.tried[k].found = <<>>
           /\ \/ c.tried[n].found # <<>> /\ c.pages = c.tried[n].found
              \/ n = Len(c.candidates) /\ c.tried[n].found = <<>> /\ c.pages = <<>>

\* the second candidate wins although a later one holds pages too
C4_Witness ==
    \E i \in MissCalls :
        LET c == calls[i]
        IN /\ Len(c.tried) = 2
           /\ c.tried[2].found # <<>>
           /\ \E k \in 3..Len(c.candidates) :
                _fetch_and_parse(web, c.candidates[k], c.domain, 0).pages
                    \notin {<<>>, c.tried[2].found}

\* the sitemap URLs robots.txt serves with status 200, in file order
ServedDeclarations(domain) ==
    LET url == domain \o <<"/", "robots.txt">>
    IN {d \in {<<>>, <<UrlCustom1>>, <<UrlCustom1, UrlCustom2>>} :
            /\ url \in DOMAIN web
            /\ web[url] = Response(200, TextBody(RobotsText(d)))}

\* C5: the candidates are the sitemap URLs robots.txt declares, in file
\* order, then /sitemap.xml, /sitemap_index.xml, /sitemap-index.xml and
\* /wp-sitemap.xml; a candidate that fails or yields no page is followed by
\* the fetch of the next candidate.
C5_CandidateOrder ==
    \A i \in MissCalls :
        LET c == calls[i]
        IN /\ \A d \in ServedDeclarations(c.domain) :
                c.candidates = d \o << c.domain \o <<"/", "sitemap.xml">>,
                                       c.domain \o <<"/", "sitemap", "_", "index.xml">>,
                                       c.domain \o <<"/", "sitemap", "-", "index.xml">>,
                                       c.domain \o <<"/", "wp", "-", "sitemap.xml">> >>
           /\ \A k \in 1..(Len(c.candidates) - 1) :
                (k <= Len(c.tried) /\ c.tried[k].found = <<>>)
                    => (k + 1 <= Len(c.tried) /\ c.tried[k + 1].url = c.candidates[k + 1])

\* robots.txt declares one sitemap, which answers 404: the scan goes on to
\* /sitemap.xml and beyond
C5_Witness ==
    \E i \in MissCalls :
        LET c == calls[i]
        IN /\ ServedDeclarations(c.domain) = {<<UrlCustom1>>}
           /\ web[UrlCustom1].status = 404
           /\ Len(c.tried) >= 3
           /\ c.tried[2].url = UrlSitemap

\* ---- the tree of sitemap documents under a candidate, by paths

\* the document the URL serves, when it is served well-formed
ServedXml(url) ==
    /\ url \in DOMAIN web
    /\ web[url].kind = "resp"
    /\ web[url].status \in 200..399
    /\ web[url].body.type = "xml"

IsIndex(url) == ServedXml(url) /\ web[url].body.root = "sitemapindex"

IsUrlSet(url) == ServedXml(url) /\ web[url].body.root # "sitemapindex"

\* the most children any served index lists
Fanout ==
    LET sizes == {0} \cup {Len(web[u].body.locs) : u \in {v \in DOMAIN web : IsIndex(v)}}
    IN CHOOSE n \in sizes : \A m \in sizes : m <= n

\* the URL reached from root by following the path p of child positions
\* through sitemap indexes; None when the path leaves the tree
RECURSIVE DocAt(_, _)
DocAt(root, p) ==
    IF p = <<>> THEN root
    ELSE IF IsIndex(root) /\ Head(p) <= Len(web[root].body.locs)
            /\ web[root].body.locs[Head(p)] # <<>>
         THEN DocAt(Strip(web[root].body.locs[Head(p)]), Tail(p))
         ELSE None

\* the paths of length n
PathsOfLength(n) == [1..n -> 1..Fanout]

\* the paths from root, of at most n steps, that end at a url-set
LeafPaths(root, n) ==
    IF ~IsIndex(root) THEN {p \in {<<>>} : IsUrlSet(root)}
    ELSE {p \in UNION {PathsOfLength(k) : k \in 1..n} :
            With(DocAt(root, p), LAMBDA doc : doc # None /\ IsUrlSet(doc))}

\* document order: p comes before q
Before(p, q) ==
    \E k \in 1..Len(p) :
        /\ k <= Len(q)
        /\ \A m \in 1..(k - 1) : p[m] = q[m]
        /\ p[k] < q[k]

\* the pages of the url-sets at the given paths, in document order
RECURSIVE PagesInOrder(_, _)
PagesInOrder(root, paths) ==
    IF paths = {} THEN <<>>
    ELSE With(CHOOSE p \in paths : \A q \in paths \ {p} : Before(p, q), LAMBDA first :
            UrlSetPages(web[DocAt(root, first)].body.locs)
            \o PagesInOrder(root, paths \ {first}))

\* C12: what the parse of a candidate yields is the pages of the url-sets
\* reached from it through at most three levels of sitemap indexes, in document
\* order; a document four or more levels down adds nothing.
C12_LeavesToDepthThreeInOrder ==
    \A i \in MissCalls :
        \A k \in 1..Len(calls[i].tried) :
            With(calls[i].tried[k], LAMBDA t :
                t.found = PagesInOrder(t.url, LeafPaths(t.url, 3)))

\* an index that lists a url-set, itself and another url-set: the two
\* url-sets are met at depth 1, 2, 3 and again, for nothing, at depth 4
C12_Witness ==
    \E i \in MissCalls :
        \E k \in 1..Len(calls[i].tried) :
            LET t == calls[i].tried[k]
            IN /\ IsIndex(t.url)
               /\ Len(web[t.url].body.locs) = 3
               /\ Cardinality(LeafPaths(t.url, 3)) = 6
               /\ Cardinality(LeafPaths(t.url, 4)) = 8
               /\ Len(t.found) = 6
               /\ t.found[1] # t.found[6]

\* the URL serves, with a status that does not raise, a body that is not
\* well-formed XML
ServesMalformed(url) ==
    /\ url \in DOMAIN web
    /\ web[url].kind = "resp"
    /\ ~RaisesForStatus(web[url])
    /\ web[url].body.type = "text"

\* C13: the parse of malformed XML is the empty sequence, and a candidate
\* that serves malformed XML counts as having found no page: the scan goes on
\* to the next candidate.
C13_MalformedYieldsNoPage ==
    \A i \in MissCalls :
        LET c == calls[i]
        IN \A k \in 1..Len(c.tried) :
              ServesMalformed(c.tried[k].url)
                => /\ _parse_sitemap_xml(web, web[c.tried[k].url].body, c.domain, 0).pages = <<>>
                   /\ c.tried[k].found = <<>>
                   /\ k < Len(c.candidates)
                        => (k + 1 <= Len(c.tried) /\ c.tried[k + 1].url = c.candidates[k + 1])

\* /sitemap.xml is truncated, and a later candidate supplies the pages
C13_Witness ==
    \E i \in MissCalls :
        LET c == calls[i]
        IN \E k \in 1..(Len(c.tried) - 1) :
              /\ c.tried[k].url = UrlSitemap
              /\ web[UrlSitemap] = Malformed
              /\ c.pages # <<>>
              /\ c.pages = c.tried[Len(c.tried)].found

\* every page sequence the resolver holds or has returned
HeldPageLists ==
    {_cache[k] : k \in DOMAIN _cache}
    \cup UNION {{sessions[s][k] : k \in DOMAIN sessions[s]} : s \in Sessions}
    \cup {calls[i].pages : i \in 1..Len(calls)}

HeldPages == UNION {{l[n] : n \in 1..Len(l)} : l \in HeldPageLists}

\* C14: the slug of every page the resolver produced begins with "/", and is
\* "/" alone when the path of the page URL is empty or "/".
C14_SlugBeginsWithSlash ==
    \A page \in HeldPages :
        /\ page.slug # <<>>
        /\ page.slug[1] = "/"
        /\ UrlPath(page.url) \in {<<>>, <<"/">>} => page.slug = <<"/">>

\* a sitemap that lists the bare site and a loc without scheme or leading "/"
C14_Witness ==
    /\ \E page \in HeldPages : page.url = PostD /\ page.slug = <<"/">>
    /\ \E page \in HeldPages :
            page.url = PostE /\ page.slug = <<"/", "a.io", "/", "contact">>
    /\ \E s \in Sessions : \E k \in DOMAIN sessions[s] : sessions[s][k] # <<>>

\* the calls that were given a session cache
SessionCalls == {i \in 1..Len(calls) : calls[i].session_state # NoSessionState}

\* the cache holds the key of the call mapped to what the call returned
HoldsResultOf(cache, c) ==
    /\ CacheKey(c.domain) \in DOMAIN cache
    /\ cache[CacheKey(c.domain)] = c.pages

\* C17 as stated: after a call that was given a session cache, whichever
\* path it took, the session cache and the process-wide cache both hold the
\* key mapped to the sequence returned.
C17_BothCachesHoldResult ==
    \A i \in SessionCalls :
        /\ HoldsResultOf(_cache, calls[i])
        /\ HoldsResultOf(sessions[calls[i].session_state], calls[i])

\* C17 as amended: the process-wide cache holds it after every such call;
\* the session cache holds it when the call missed both caches or was served
\* from the session cache; a call served from the process-wide cache leaves
\* the session cache as it was.
C17_StoredWhereTheCallWrote ==
    \A i \in SessionCalls :
        LET c == calls[i]
            wrote == \E j \in SessionCalls :
                        /\ calls[j].session_state = c.session_state
                        /\ calls[j].domain = c.domain
                        /\ calls[j].source = "miss"
        IN /\ HoldsResultOf(_cache, c)
           /\ c.source \in {"miss", "session"} => HoldsResultOf(sessions[c.session_state], c)
           /\ ~wrote => CacheKey(c.domain) \notin DOMAIN sessions[c.session_state]

\* a miss that found nothing under one session, then the same domain under
\* another session, served from the process-wide cache
C17_Witness ==
    \E i, j \in SessionCalls :
        /\ i < j
        /\ calls[i].source = "miss" /\ calls[i].pages = <<>>
        /\ HoldsResultOf(sessions[calls[i].session_state], calls[i])
        /\ calls[j].domain = calls[i].domain
        /\ calls[j].source = "module"
        /\ CacheKey(calls[j].domain) \notin DOMAIN sessions[calls[j].session_state]

\* the calls that wrote the key into the process-wide cache
WritesOf(key) == {i \in MissCalls : CacheKey(calls[i].domain) = key}

\* C18: every key of the process-wide cache is written once: one call wrote
\* it, its value is still what that call stored, it is never removed, and
\* every later call for the domain is answered with that value, so a domain
\* resolved to no page stays resolved to no page.
C18_KeyWrittenOnce ==
    /\ \A key \in DOMAIN _cache :
          /\ Cardinality(WritesOf(key)) = 1
          /\ \A i \in WritesOf(key) :
                /\ _cache[key] = calls[i].pages
                /\ \A j \in 1..Len(calls) :
                      (j > i /\ calls[j].domain = calls[i].domain)
                          => (calls[j].source # "miss" /\ calls[j].pages = calls[i].pages)
    /\ \A i \in 1..Len(calls) : CacheKey(calls[i].domain) \in DOMAIN _cache

\* a domain resolved to no page, asked again with no session cache
C18_Witness ==
    \E i, j \in 1..Len(calls) :
        /\ i < j
        /\ calls[i].source = "miss" /\ calls[i].pages = <<>>
        /\ calls[i].session_state # NoSessionState
        /\ calls[j].domain = calls[i].domain
        /\ calls[j].session_state = NoSessionState
        /\ calls[j].source = "module" /\ calls[j].pages = <<>>

\* the robots.txt request of the call raised or came back with a status
\* other than 200
RobotsFailed(c) ==
    LET url == c.domain \o <<"/", "robots.txt">>
    IN \/ url \notin DOMAIN web
       \/ web[url].kind = "error"
       \/ web[url].kind = "resp" /\ web[url].status # 200

\* the sitemap request raised or came back with an error status
FetchFailed(url) ==
    \/ url \notin DOMAIN web
    \/ web[url].kind = "error"
    \/ web[url].kind = "resp" /\ web[url].status \in 400..599

\* C19: a call is not broken by network failure. When robots.txt cannot be
\* fetched or is not a 200, the candidates are the four conventional URLs;
\* when every candidate fails or yields nothing, the call returns the empty
\* sequence and caches it.
C19_NetworkFailureIsNotFatal ==
    \A i \in MissCalls :
        LET c == calls[i]
        IN /\ c.requests[1] = c.domain \o <<"/", "robots.txt">>
           /\ RobotsFailed(c) =>
                c.candidates = << c.domain \o <<"/", "sitemap.xml">>,
                                  c.domain \o <<"/", "sitemap", "_", "index.xml">>,
                                  c.domain \o <<"/", "sitemap", "-", "index.xml">>,
                                  c.domain \o <<"/", "wp", "-", "sitemap.xml">> >>
           /\ \A k \in 1..Len(c.tried) : FetchFailed(c.tried[k].url) => c.tried[k].found = <<>>
           /\ (\A k \in 1..Len(c.tried) : c.tried[k].found = <<>>)
                => /\ Len(c.tried) = Len(c.candidates)
                   /\ c.pages = <<>>
                   /\ HoldsResultOf(_cache, c)
                   /\ c.session_state # NoSessionState
                        => HoldsResultOf(sessions[c.session_state], c)

\* robots.txt answers 404 with a body that names a sitemap, and every one of
\* the four conventional URLs fails
C19_Witness ==
    \E i \in MissCalls :
        LET c == calls[i]
        IN /\ c.domain = Site
           /\ web[UrlRobots].kind = "resp" /\ web[UrlRobots].status = 404
           /\ DeclaredSitemaps(splitlines(ResponseText(web[UrlRobots]))) # <<>>
           /\ Len(c.tried) = 4
           /\ \A k \in 1..4 : FetchFailed(c.tried[k].url) \/ ServesMalformed(c.tried[k].url)
           /\ c.pages = <<>>
           /\ _cache[CacheKey(c.domain)] = <<>>

RECURSIVE Power(_, _)
Power(b, n) == IF n = 0 THEN 1 ELSE b * Power(b, n - 1)

\* C20: a call ends whatever the sitemap documents link to, an index that
\* lists itself included: no request is made more than four levels below a
\* candidate (the children of an index parsed at depth 3, which are fetched
\* and not parsed), and the requests at each depth are at most the candidates
\* times the widest index raised to that depth.
C20_RecursionIsBounded ==
    \A i \in MissCalls :
        LET c == calls[i]
        IN /\ Len(c.requests) = 1 + Len(c.depths)
           /\ \A n \in 1..Len(c.depths) : c.depths[n] \in 0..4
           /\ \A d \in 0..4 :
                Cardinality({n \in 1..Len(c.depths) : c.depths[n] = d})
                    <= Len(c.candidates) * Power(Fanout, d)
           /\ \A n \in 1..Len(c.depths) :
                IF c.depths[n] = 0
                THEN \E k \in 1..Len(c.tried) : c.requests[n + 1] = c.tried[k].url
                ELSE \E u \in DOMAIN web :
                        /\ IsIndex(u)
                        /\ \E m \in 1..Len(web[u].body.locs) :
                              web[u].body.locs[m] = c.requests[n + 1]

\* an index that lists itself is followed down to depth 4 and no further
C20_Witness ==
    \E i \in MissCalls :
        LET c == calls[i]
        IN /\ \E k \in 1..Len(c.tried) :
                /\ IsIndex(c.tried[k].url)
                /\ DocAt(c.tried[k].url, <<1>>) = c.tried[k].url
           /\ \E n \in 1..Len(c.depths) :
                c.depths[n] = 4 /\ c.requests[n + 1] = UrlSitemapIndex

\* the string names a scheme: it holds "://"
HasScheme(domain) == IsInfix(<<":", "/", "/">>, domain)

\* the normal form going by the scheme: "https://" in front of a string
\* without scheme, trailing slashes off
SchemeNormalForm(domain) ==
    RStrip(IF HasScheme(domain) THEN domain ELSE Https \o domain, "/")

\* C22: the domain a call works with is its argument with "https://" put in
\* front when it names no scheme and the trailing slash stripped, so
\* arguments that differ by that alone share a cache key; normalising a
\* normalised domain changes nothing.
C22_NormalizedByScheme ==
    \A i \in 1..Len(calls) :
        /\ calls[i].domain = SchemeNormalForm(calls[i].raw)
        /\ NormalizeDomain(calls[i].domain) = calls[i].domain
        /\ \A j \in 1..Len(calls) :
              SchemeNormalForm(calls[i].raw) = SchemeNormalForm(calls[j].raw)
                => CacheKey(calls[i].domain) = CacheKey(calls[j].domain)

\* the same of the arguments that do not begin with the letters "http":
\* this holds
C22_HoldsUnlessNameBeginsWithHttp ==
    \A i \in 1..Len(calls) :
        (HasScheme(calls[i].raw) \/ ~StartsWith(calls[i].raw, <<"http">>))
            => /\ calls[i].domain = SchemeNormalForm(calls[i].raw)
               /\ NormalizeDomain(calls[i].domain) = calls[i].domain

\* C24: whatever a session cache holds, the process-wide cache holds too,
\* under the same key and with the same page sequence.
C24_SessionCacheWithinModuleCache ==
    \A s \in Sessions :
        \A key \in DOMAIN sessions[s] :
            key \in DOMAIN _cache /\ _cache[key] = sessions[s][key]

\* one session holds a domain that resolved to no page, the other a domain
\* with pages
C24_Witness ==
    \E s, t \in Sessions :
        /\ \E key \in DOMAIN sessions[s] : sessions[s][key] = <<>>
        /\ \E key \in DOMAIN sessions[t] : sessions[t][key] # <<>>


\* ------------------------------------------------ claims on the extractor

FetchOver == fpc \in {"returned", "raised"}

\* fetch_post returned the dict r
FetchReturned == fpc = "returned"

\* the word count fetch_post extracts from the response it accepted
AcceptedWords == SeparatedWords(content_area(response.body.page))

\* the direct fetch was accepted and the page is too short
ThinPageAccepted == response # NoDict /\ AcceptedWords < 50

\* the fallback produced a usable post
WpSucceeded ==
    /\ wp # NoDict
    /\ ~wp.result.raised
    /\ wp.result.value # NoDict
    /\ wp.result.value.word_count >= 50

\* C2: no exception crosses the boundary of fetch_post, whatever the servers
\* answer: it always ends by returning a success or a Failed value.
C2_NoExceptionEscapes == fpc # "raised"

ContentFields == {"headings", "body_text", "internal_links", "external_links", "word_count"}

\* C3: a value returned by fetch_post either has error null and every field
\* of a post, or has a non-empty error string and no content field; never both
\* and never neither.
C3_SumTypedResult ==
    FetchReturned =>
        LET r == fresult.value
            ok == r.error = None /\ {"url", "slug", "title"} \cup ContentFields \subseteq DOMAIN r
            failed == /\ r.error \notin {None, <<>>}
                      /\ ContentFields \cap DOMAIN r = {}
        IN (ok \/ failed) /\ ~(ok /\ failed)

\* a thin page was accepted, the fallback was of no help, Failed came back
C3_Witness ==
    /\ FetchReturned
    /\ ThinPageAccepted
    /\ wp # NoDict /\ wp.request # None
    /\ fresult.value.error # None

\* C7: when the accepted page yields fewer than 50 words, _try_wp_api has been
\* called by the time fetch_post is over.
C7_ThinPageTriesWpApi == (FetchOver /\ ThinPageAccepted) => wp # NoDict

\* a 200 page of 49 words, and the REST endpoint was asked
C7_Witness ==
    /\ FetchReturned
    /\ response # NoDict /\ response.status = 200
    /\ AcceptedWords = 49
    /\ wp # NoDict /\ wp.request = api_url(furl)

\* C8: after an accepted page of N < 50 words, and a fallback that failed in
\* any way or was too short, fetch_post returns Failed with the word-count
\* diagnostic for N.
C8_ThinPageFailsWithWordCount ==
    (ThinPageAccepted /\ wp # NoDict /\ ~WpSucceeded)
        => /\ FetchReturned
           /\ fresult.value.error = WordCountText(AcceptedWords) \o Suggestion

\* the same, of the fallbacks that end without raising: this part holds
C8_HoldsUnlessWpApiRaises ==
    (ThinPageAccepted /\ wp # NoDict /\ ~WpSucceeded /\ ~wp.result.raised)
        => /\ FetchReturned
           /\ fresult.value.error = WordCountText(AcceptedWords) \o Suggestion

\* the diagnostic recorded last, read off what happened: the word count of
\* the accepted page, else the error of the last direct request
LastDiagnostic ==
    IF response # NoDict THEN WordCountText(AcceptedWords)
    ELSE attempts[Len(attempts)].error

\* C9: a Failed value carries the URL fetch_post was given, and its reason is
\* the diagnostic recorded last (the default text when that is empty) followed
\* by the suggestion to paste the content.
C9_FailedCarriesLastDiagnostic ==
    (FetchReturned /\ fresult.value.error # None)
        => /\ fresult.value.url = furl
           /\ fresult.value.error =
                (IF LastDiagnostic = <<>> THEN <<"Failed to fetch the page">>
                 ELSE LastDiagnostic)
                \o << ". ", "This site may be blocking cloud-hosted requests. ",
                      "Try pasting the post content manually." >>

\* the first profile was blocked, the second got a thin page: the reason is
\* the word count, not the block
C9_Witness ==
    /\ FetchReturned
    /\ fresult.value.error # None
    /\ Len(attempts) = 2
    /\ attempts[1].verdict = "blocked"
    /\ attempts[2].verdict = "accepted"

\* "Just a moment..." in any case lies within the first n characters of html
HasChallengePhrase(html, n) ==
    \E k \in 1..(Len(html.head) - 1) :
        /\ html.head[k] \in {"Just a moment", "JUST A MOMENT", "just a moment"}
        /\ html.head[k + 1] = "..."
        /\ html.pad + Sum([m \in 1..(k + 1) |-> CharLen(html.head[m])]) <= n

ChallengeAttempts ==
    {k \in 1..Len(attempts) :
        /\ attempts[k].outcome.kind = "resp"
        /\ HasChallengePhrase(attempts[k].outcome.body, 5000)}

\* C10 as stated: a response with "Just a moment..." in its first 5000
\* characters is recorded as a bot block whatever its status.
C10_ChallengeAlwaysRecordedAsBlock ==
    \A k \in ChallengeAttempts :
        /\ attempts[k].verdict = "blocked"
        /\ attempts[k].error = BlockedText

\* C10 as amended: such a response is never accepted; it is recorded as a bot
\* block when its status is below 400 and as the HTTP error otherwise.
C10_ChallengeNeverAccepted ==
    \A k \in ChallengeAttempts :
        LET a == attempts[k]
        IN /\ a.verdict # "accepted"
           /\ a.outcome # response
           /\ IF a.outcome.status >= 400
              THEN a.verdict = "status" /\ a.error = HttpErrorText(a.outcome)
              ELSE a.verdict = "blocked" /\ a.error = BlockedText

\* an upper-case challenge that ends exactly at character 5000 of a 200 page
C10_Witness ==
    \E k \in ChallengeAttempts :
        /\ attempts[k].outcome.status = 200
        /\ attempts[k].outcome.body.pad = 4984
        /\ attempts[k].outcome.body.head[1] = "JUST A MOMENT"
        /\ attempts[k].verdict = "blocked"

\* the region a walk over the selectors in priority order picks when the
\* words of a match are the whitespace-delimited words of its text: the first
\* match of at least 100 words, else the body, else the document
RECURSIVE FirstRegionOfWords(_, _)
FirstRegionOfWords(soup, i) ==
    IF i > Len(CONTENT_SELECTORS)
    THEN (IF soup.body # NoDict THEN soup.body ELSE soup.doc)
    ELSE IF CONTENT_SELECTORS[i] \in DOMAIN soup.regions
            /\ Sum(soup.regions[CONTENT_SELECTORS[i]].strings) >= 100
         THEN soup.regions[CONTENT_SELECTORS[i]]
         ELSE FirstRegionOfWords(soup, i + 1)

\* C11: the content region of the accepted page is the match of the first
\* selector, in priority order, whose match has at least 100 words; matches
\* of fewer words are passed over; when no selector qualifies the region is
\* the body, or the whole document when there is no body.
C11_FirstSelectorOfHundredWords ==
    (response # NoDict /\ fpc \in {"wp", "returned", "raised"})
        => /\ content_area(response.body.page) = FirstRegionOfWords(response.body.page, 1)
           /\ (fpc = "returned" /\ wp = NoDict)
                => fresult.value.body_text = FirstRegionOfWords(response.body.page, 1).strings

\* how an href is to be filed going by its host alone: internal when its
\* host is the host of the post or it is root-relative, external when it is
\* an absolute http(s) URL on another host
ClassByHost(href, host) ==
    IF href = <<>> \/ StartsWith(href, <<"#">>) \/ StartsWith(href, <<"mailto", ":">>)
    THEN "skip"
    ELSE IF UrlNetloc(href) # <<>> /\ UrlNetloc(href) = host THEN "internal"
    ELSE IF StartsWith(href, <<"/">>) /\ ~StartsWith(href, <<"/", "/">>) THEN "internal"
    ELSE IF UrlScheme(href) \in {<<"http">>, <<"http", "s">>} /\ UrlNetloc(href) # host
         THEN "external"
    ELSE "skip"

RECURSIVE AnchorsByHost(_, _, _)
AnchorsByHost(anchors, host, kind) ==
    IF anchors = <<>> THEN <<>>
    ELSE (IF ClassByHost(Head(anchors).href, host) = kind THEN <<Head(anchors)>> ELSE <<>>)
         \o AnchorsByHost(Tail(anchors), host, kind)

\* fetch_post returned a post extracted from the page it fetched
DirectPost == fpc = "returned" /\ wp = NoDict /\ fresult.value.error = None

\* C15: the links of a post are filed by the host of the href alone: internal
\* when it is the host of the post or the href is root-relative, external when
\* the href is an absolute http(s) URL on another host.
C15_LinksFiledByHost ==
    DirectPost =>
        LET anchors == content_area(response.body.page).anchors
        IN /\ fresult.value.internal_links
                = AnchorsByHost(anchors, UrlNetloc(furl), "internal")
           /\ fresult.value.external_links
                = AnchorsByHost(anchors, UrlNetloc(furl), "external")

\* the header loop is over
DirectOver == fpc \in {"extract", "wp", "returned", "raised"}

\* a direct request failed: it raised, its status is not 2xx, or it brought
\* a challenge page
FailedAttempt(a) ==
    \/ a.outcome.kind = "error"
    \/ a.outcome.kind = "resp" /\ a.outcome.status \notin 200..299
    \/ a.outcome.kind = "resp" /\ _is_blocked_page(a.outcome.body)

\* C16: the header profiles are requested in order, each at most once; the
\* second is requested exactly when the first attempt failed (exception,
\* non-2xx status or challenge page), and the first attempt that did not fail
\* is the accepted response, after which no direct request is made.
C16_SecondProfileIffFirstFailed ==
    DirectOver =>
        /\ Len(attempts) \in 1..2
        /\ \A k \in 1..Len(attempts) : attempts[k].profile = k
        /\ (Len(attempts) = 2) <=> FailedAttempt(attempts[1])
        /\ \A k \in 1..Len(attempts) :
              IF FailedAttempt(attempts[k])
              THEN attempts[k].verdict # "accepted"
              ELSE k = Len(attempts) /\ response = attempts[k].outcome

\* the same with "failed on status" read as raise_for_status reads it, a
\* status from 400 to 599: this holds
C16_HoldsForErrorStatuses ==
    DirectOver =>
        /\ Len(attempts) \in 1..2
        /\ \A k \in 1..Len(attempts) : attempts[k].profile = k
        /\ \A k \in 1..Len(attempts) :
              LET a == attempts[k]
                  failed == \/ a.outcome.kind = "error"
                            \/ a.outcome.kind = "resp" /\ a.outcome.status \in 400..599
                            \/ a.outcome.kind = "resp" /\ _is_blocked_page(a.outcome.body)
              IN IF failed
                 THEN a.verdict # "accepted" /\ (k = 1 => Len(attempts) = 2)
                 ELSE k = Len(attempts) /\ response = a.outcome

\* C23: a success returned by fetch_post, from the fetched page or from the
\* REST fallback, has at least 50 words and a null error.
C23_SuccessHasFiftyWords ==
    FetchReturned =>
        IF "word_count" \in DOMAIN fresult.value
        THEN fresult.value.error = None /\ fresult.value.word_count >= 50
        ELSE fresult.value.error # None

\* a thin page, then a REST post of exactly 50 words, returned as the result
C23_Witness ==
    /\ FetchReturned
    /\ ThinPageAccepted
    /\ WpSucceeded
    /\ fresult = wp.result
    /\ fresult.value.word_count = 50

\* ----------------------------------------- claims on the processing loop

LoopOver == lpc \in {"done", "aborted"}

\* C6: whatever happens to a URL, the loop goes on to the remaining ones, and
\* when it is over the result list holds one entry per URL, in input order.
C6_OneEntryPerUrl ==
    LoopOver =>
        /\ Len(results) = Len(urls)
        /\ \A k \in 1..Len(urls) : results[k].url = urls[k]

\* C21: for each URL the loop fetches, then audits, then rewrites. The audit
\* runs only on a post that fetch_post returned as a success for the URL in
\* hand, the rewrite only once the audit of that URL has returned, and the
\* URLs before the one in hand, and only those, have their entry in the list.
C21_FetchAuditRewriteInOrder ==
    /\ lpc \in {"top", "fetching", "audit", "rewrite"} => Len(results) = idx - 1
    /\ \A k \in 1..Len(results) : results[k].url = urls[k]
    /\ lpc \in {"top", "audit", "rewrite", "done"} => fpc = "idle"
    /\ lpc = "fetching" => (fpc # "idle" /\ furl = urls[idx] /\ post = NoDict /\ audit = NoDict)
    /\ lpc = "audit" =>
          /\ post # NoDict /\ post.error = None /\ post.url = urls[idx]
          /\ audit = NoDict
    /\ lpc = "rewrite" =>
          /\ post # NoDict /\ post.error = None /\ post.url = urls[idx]
          /\ audit # NoDict

\* the first URL failed to fetch, the second is fetched and audited and is
\* about to be rewritten
C21_Witness ==
    /\ lpc = "rewrite"
    /\ idx = 2
    /\ Len(results) = 1
    /\ results[1].error # None
    /\ post.url = urls[2]


\* ------------------------------------- claims on concurrent resolver calls

\* the call of thread t has left its candidate loop
ScanOver(t) == threads[t].source = "miss" /\ threads[t].pc \in {"store", "store_session", "done"}

\* the fetches of thread t make one complete scan: the candidates were taken
\* in order, every one before the last found nothing, and the sequence kept
\* is what the last one found, or the loop ran out of candidates
CompleteScan(t) ==
    With(threads[t], LAMBDA th :
        /\ Len(th.tried) \in 1..Len(th.candidates)
        /\ \A k \in 1..Len(th.tried) : th.tried[k].url = th.candidates[k]
        /\ \A k \in 1..(Len(th.tried) - 1) : th.tried[k].found = <<>>
        /\ th.pages = th.tried[Len(th.tried)].found
        /\ th.pages = <<>> => Len(th.tried) = Len(th.candidates))

\* the sequences complete scans have produced so far
ScannedSequences == {threads[t].pages : t \in {u \in Sessions : ScanOver(u)}}

\* the sequences the caches hold
CachedSequences ==
    {_cache[k] : k \in DOMAIN _cache}
    \cup UNION {{sessions[s][k] : k \in DOMAIN sessions[s]} : s \in Sessions}

\* C25: under any interleaving of two get_site_pages calls for the same
\* uncached domain made by two sessions that share the process-wide cache
\* without a lock, every call returns a sequence that one complete candidate
\* scan produced, no cache ever holds anything else, and once both calls have
\* returned the process-wide cache holds the sequence one of them returned.
C25_RacingCallsStoreCompleteScans ==
    /\ \A t \in Sessions : ScanOver(t) => CompleteScan(t)
    /\ \A t \in Sessions :
          threads[t].pc = "done" =>
              /\ threads[t].returned \in ScannedSequences
              /\ threads[t].source = "miss" => threads[t].returned = threads[t].pages
    /\ CachedSequences \subseteq ScannedSequences
    /\ (\A t \in Sessions : threads[t].pc = "done") =>
          /\ DOMAIN _cache = {CacheKey(Site)}
          /\ \E t \in Sessions : _cache[CacheKey(threads[t].domain)] = threads[t].returned

\* both calls missed, scanned a site that changed between them, returned
\* different sequences, and the process-wide cache holds the second's
C25_Witness ==
    /\ \A t \in Sessions : threads[t].pc = "done" /\ threads[t].source = "miss"
    /\ threads["s1"].returned # threads["s2"].returned
    /\ threads["s1"].returned # <<>>
    /\ threads["s2"].returned # <<>>
    /\ _cache[CacheKey(threads["s2"].domain)] = threads["s2"].returned
    /\ sessions["s1"][CacheKey(threads["s1"].domain)] = threads["s1"].returned

=============================================================================
